---- MODULE Spec2Model ----
(***************************************************************************)
(* A model of the VersusBank in-browser game runtime:                      *)
(*   SceneManager  (src/src/ts/SceneManager.ts)                            *)
(*   Game          (src/unnamed/part_007)                                  *)
(*   InputHandler  (src/unnamed/part_009)                                  *)
(*   AssetManager  (src/src/vite-env.d.ts, lines 11-387)                   *)
(* Each component has its own variables and its own specification          *)
(* (SpecScene, SpecGame, SpecInput, SpecAssets); a component's actions     *)
(* leave the other components' variables unchanged.                        *)
(***************************************************************************)
EXTENDS Integers, Sequences, FiniteSets, TLC

VARIABLES
  \* ---- SceneManager fields (SceneManager.ts 34-43)
  scenes,               \* Map<string, Scene>: name -> scene object or NoScene
  initializedScenes,    \* Set<string>
  currentScene,         \* Scene | null
  transitionFromScene,  \* Scene | null
  transitionToScene,    \* Scene | null
  transitionActive,     \* boolean
  transitionProgress,   \* number, in hundredths (0..100), or NaN
  transitionType,       \* TransitionType
  transitionDuration,   \* milliseconds
  \* ---- SceneManager: the one switchTo invocation that may be in flight,
  \*      the clock it reads (Date.now()) and the outcome of the last call
  pendingSwitch,
  sceneNow,
  sceneCall,
  \* ---- SceneManager: the calls the last step made on scenes and on the
  \*      renderer, in order; the init() calls made for each name since its
  \*      registration; whether init() has completed on the current scene
  \*      and on the target of the transition
  sceneCalls,
  sceneInits,
  sceneInited,
  \* ---- SceneManager: the scene objects on which destroy() has been called
  \*      after their last init() call (kept by SpecLifecycle only)
  sceneDestroyed,
  \* ---- Game fields (part_007 61-80)
  gameState,            \* state: GameState
  previousState,        \* GameState | null
  isRunning,
  isPaused,
  lastTime,             \* in 1/60 ms
  accumulator,          \* in 1/60 ms
  \* ---- Game: the browser's animation frames, its clock (performance.now(),
  \*      in 1/60 ms) and the outcome of the last call
  gameNow,
  framePhase,           \* "idle" | "begun" | "callbacks"
  frameTs,              \* the timestamp of the frame that has begun
  rafPending,           \* callbacks registered for the next frame
  rafRunning,           \* callbacks of the frame being run, not yet called
  loopCall,             \* the last gameLoop call of the frame being run
  pauseCall,            \* the last pause() call and the resume() after it
  \* ---- Game: the canvas scaling (part_007 93, 149-182) and the window
  scale,
  canvasStyle,          \* canvas.style.width and height, in CSS pixels
  viewport,             \* window.innerWidth and innerHeight
  canvasCall,           \* the last call or event of the canvas scaling
  \* ---- main.ts: how far init() has come, and the errors logged to the
  \*      console by the error and unhandledrejection listeners
  bootPhase,
  consoleErrors,
  \* ---- Renderer (main.ts 279-285): the 2D context's current transform and
  \*      the transforms on its save stack, the camera, and the last call
  ctx,
  camera,
  rendererCall,
  \* ---- InputHandler fields (part_009 51-76)
  touches,              \* state.touches: TouchInfo[]
  virtualJoystick,
  \* ---- InputHandler: the long-press timers armed by setTimeout, the clock
  \*      (Date.now(), ms) and the events emitted by the last handler
  timers,
  inputNow,
  inputCall,
  \* ---- the browser's touches on the canvas (TouchEvent.targetTouches),
  \*      by identifier
  targetTouches,
  \* ---- the touch handed to completeGestureRecognition when it is checked
  \*      as a function of its argument (SpecGesture)
  gestureArg,
  \* ---- AssetManager fields (vite-env.d.ts 62-66). assets and loadPromises
  \*      map an id to the number of an Asset record (0: no entry); records
  \*      holds every Asset object loadAsset has created, and loads the
  \*      records whose loadAssetData promise is pending
  assets,
  totalAssets,
  loadedAssets,
  failedAssets,
  loadPromises,
  records,
  loads,
  batches,              \* the loadAssets calls awaiting Promise.all
  assetCall             \* the last AssetManager call or promise settlement

sceneVars == <<scenes, initializedScenes, currentScene, transitionFromScene,
               transitionToScene, transitionActive, transitionProgress,
               transitionType, transitionDuration, pendingSwitch, sceneNow,
               sceneCall, sceneCalls, sceneInits, sceneInited>>

gameVars == <<gameState, previousState, isRunning, isPaused, lastTime,
              accumulator, gameNow, framePhase, frameTs, rafPending,
              rafRunning, loopCall, pauseCall>>

canvasVars == <<scale, canvasStyle, viewport, canvasCall>>

startupVars == <<bootPhase, consoleErrors>>

lifecycleVars == <<sceneDestroyed>>

rendererVars == <<ctx, camera, rendererCall>>

inputVars == <<touches, virtualJoystick, timers, inputNow, inputCall,
               targetTouches, gestureArg>>

assetVars == <<assets, totalAssets, loadedAssets, failedAssets, loadPromises,
               records, loads, batches, assetCall>>

vars == <<sceneVars, lifecycleVars, gameVars, canvasVars, startupVars, rendererVars,
          inputVars, assetVars>>

Min2(a, b) == IF a <= b THEN a ELSE b
Max2(a, b) == IF a >= b THEN a ELSE b

(***************************************************************************)
(*                              SceneManager                               *)
(***************************************************************************)

\* ---- bounds of the scene model
MaxSceneObjs == 2
MaxSceneTime == 500

SceneNames == {"menu", "game"}
SceneObjs == 1..MaxSceneObjs
NoScene == 0
NoSwitch == [phase |-> "none"]
\* the outcome recorded for a call that neither fails nor ends a transition
OtherCall == [op |-> "other", result |-> "ok"]
\* the value NaN of a JavaScript number: below every progress, equal to none
NaN == 0 - 1

TransitionTypes == {"none", "fade", "slideLeft", "slideRight", "slideUp", "slideDown"}
\* the transition types the model draws for switchTo's second argument
SwitchTypes == {"none", "fade"}
\* arguments drawn for setTransitionDuration and steps of the clock (ms)
DurationArgs == {-100, 500}
SceneTicks == {250}

DefaultTransitionDuration == 500

\* elapsed / this.transitionDuration clipped by Math.min(.., 1), in hundredths.
\* 0/0 is NaN (Math.min(NaN, 1) is NaN); x/0 for x > 0 is Infinity, clipped to 1.
Progress(elapsed, duration) ==
  IF duration = 0
  THEN (IF elapsed = 0 THEN NaN ELSE 100)
  ELSE Min2((elapsed * 100) \div duration, 100)

\* this.transitionProgress >= 1 (false for NaN)
ProgressComplete(p) == IF p = NaN THEN FALSE ELSE p >= 100

\* a call made on a scene (init, update, render, destroy) or on the renderer
\* (setGlobalAlpha, with the alpha in hundredths)
SceneCall(method, scene) == [call |-> method, scene |-> scene, alpha |-> 0]
AlphaCall(a) == [call |-> "setGlobalAlpha", scene |-> NoScene, alpha |-> a]

SceneInit ==
  /\ scenes = [n \in SceneNames |-> NoScene]
  /\ initializedScenes = {}
  /\ currentScene = NoScene
  /\ transitionFromScene = NoScene
  /\ transitionToScene = NoScene
  /\ transitionActive = FALSE
  /\ transitionProgress = 0
  /\ transitionType = "none"
  /\ transitionDuration = DefaultTransitionDuration
  /\ pendingSwitch = NoSwitch
  /\ sceneNow = 0
  /\ sceneCall = OtherCall
  /\ sceneCalls = <<>>
  /\ sceneInits = [n \in SceneNames |-> 0]
  /\ sceneInited = [current |-> FALSE, target |-> FALSE]

\* addScene(name, scene)
AddScene(n, o) ==
  /\ scenes' = [scenes EXCEPT ![n] = o]
  /\ sceneCall' = OtherCall
  /\ sceneCalls' = <<>>
  /\ sceneInits' = IF scenes[n] # o THEN [sceneInits EXCEPT ![n] = 0] ELSE sceneInits
  /\ UNCHANGED sceneInited
  /\ UNCHANGED <<initializedScenes, currentScene, transitionFromScene,
                 transitionToScene, transitionActive, transitionProgress,
                 transitionType, transitionDuration, pendingSwitch, sceneNow>>

\* removeScene's test "if (this.currentScene === scene)"
\* (mutant: the test dropped)
IsCurrentSceneDropped(o) == FALSE
IsCurrentScene(o) == currentScene = o

\* removeScene(name)
RemoveScene(n) ==
  IF scenes[n] = NoScene
  THEN /\ sceneCall' = [op |-> "removeScene", result |-> "absent", name |-> n]
       /\ sceneCalls' = <<>>
       /\ UNCHANGED <<sceneInits, sceneInited>>
       /\ UNCHANGED <<scenes, initializedScenes, currentScene, transitionFromScene,
                      transitionToScene, transitionActive, transitionProgress,
                      transitionType, transitionDuration, pendingSwitch, sceneNow>>
  ELSE IF IsCurrentScene(scenes[n])
  THEN /\ sceneCall' = [op |-> "removeScene", result |-> "throws", name |-> n]
       /\ sceneCalls' = <<>>
       /\ UNCHANGED <<sceneInits, sceneInited>>
       /\ UNCHANGED <<scenes, initializedScenes, currentScene, transitionFromScene,
                      transitionToScene, transitionActive, transitionProgress,
                      transitionType, transitionDuration, pendingSwitch, sceneNow>>
  ELSE /\ scenes' = [scenes EXCEPT ![n] = NoScene]
       /\ initializedScenes' = initializedScenes \ {n}
       /\ sceneCall' = [op |-> "removeScene", result |-> "ok", name |-> n]
       /\ sceneCalls' = <<SceneCall("destroy", scenes[n])>>
       /\ sceneInits' = [sceneInits EXCEPT ![n] = 0]
       /\ UNCHANGED sceneInited
       /\ UNCHANGED <<currentScene, transitionFromScene,
                      transitionToScene, transitionActive, transitionProgress,
                      transitionType, transitionDuration, pendingSwitch, sceneNow>>

\* completeTransition: the calls it makes
\* (mutant: the outgoing scene is not destroyed)
CompleteCallsNoDestroy(from) == <<>>
CompleteCalls(from) == IF from # NoScene THEN <<SceneCall("destroy", from)>> ELSE <<>>

\* completeTransition(fromScene, toScene)
CompleteTransition(from, to) ==
  /\ currentScene' = to
  /\ transitionActive' = FALSE
  /\ transitionProgress' = 0
  /\ transitionFromScene' = NoScene
  /\ transitionToScene' = NoScene
  /\ pendingSwitch' = NoSwitch

\* performTransition's updateTransition closure: one sample of the progress
UpdateTransition(from, to, startTime) ==
  LET p == Progress(sceneNow - startTime, transitionDuration) IN
  IF ProgressComplete(p)
  THEN /\ CompleteTransition(from, to)
       /\ sceneCall' = [op |-> "completeTransition", result |-> "ok"]
       /\ sceneCalls' = CompleteCalls(from)
       /\ sceneInited' = [current |-> sceneInited.target, target |-> FALSE]
  ELSE /\ transitionProgress' = p
       /\ sceneCall' = OtherCall
       /\ sceneCalls' = <<>>
       /\ UNCHANGED sceneInited
       /\ UNCHANGED <<currentScene, transitionFromScene, transitionToScene,
                      transitionActive, pendingSwitch>>

\* switchTo from "Set transition scenes" on: performTransition reads
\* Date.now() and runs updateTransition once, synchronously
StartTransition(to) ==
  LET p == Progress(0, transitionDuration) IN
  IF ProgressComplete(p)
  THEN CompleteTransition(currentScene, to)
  ELSE /\ transitionFromScene' = currentScene
       /\ transitionToScene' = to
       /\ transitionProgress' = p
       /\ pendingSwitch' = [phase |-> "anim", from |-> currentScene, to |-> to,
                            startTime |-> sceneNow]
       /\ transitionActive' = TRUE
       /\ UNCHANGED currentScene

\* the calls switchTo makes from "Set transition scenes" on
StartTransitionCalls ==
  IF ProgressComplete(Progress(0, transitionDuration))
  THEN CompleteCalls(currentScene) ELSE <<>>

\* switchTo's guard "if (this.transitionActive)"
\* (mutant: the guard dropped)
TransitionInProgressDropped == FALSE
TransitionInProgress == transitionActive

\* switchTo's test "if (!newScene)"
\* (mutant: the test dropped)
SceneNotFoundDropped(n) == FALSE
SceneNotFound(n) == scenes[n] = NoScene

\* switchTo(sceneName, transitionType): the call up to its first suspension
SwitchTo(n, t) ==
  IF SceneNotFound(n)
  THEN /\ sceneCall' = [op |-> "switchTo", result |-> "throws", name |-> n]
       /\ sceneCalls' = <<>>
       /\ UNCHANGED <<sceneInits, sceneInited>>
       /\ UNCHANGED <<scenes, initializedScenes, currentScene, transitionFromScene,
                      transitionToScene, transitionActive, transitionProgress,
                      transitionType, transitionDuration, pendingSwitch, sceneNow>>
  ELSE IF TransitionInProgress
  THEN /\ sceneCall' = [op |-> "switchTo", result |-> "in progress", name |-> n]
       /\ sceneCalls' = <<>>
       /\ UNCHANGED <<sceneInits, sceneInited>>
       /\ UNCHANGED <<scenes, initializedScenes, currentScene, transitionFromScene,
                      transitionToScene, transitionActive, transitionProgress,
                      transitionType, transitionDuration, pendingSwitch, sceneNow>>
  ELSE IF currentScene = scenes[n]
  THEN /\ sceneCall' = [op |-> "switchTo", result |-> "already active", name |-> n]
       /\ sceneCalls' = <<>>
       /\ UNCHANGED <<sceneInits, sceneInited>>
       /\ UNCHANGED <<scenes, initializedScenes, currentScene, transitionFromScene,
                      transitionToScene, transitionActive, transitionProgress,
                      transitionType, transitionDuration, pendingSwitch, sceneNow>>
  ELSE /\ transitionType' = t
       /\ sceneCall' = [op |-> "switchTo", result |-> "started", name |-> n]
       /\ IF n \notin initializedScenes
          THEN \* await newScene.init()
               /\ transitionActive' = TRUE
               /\ transitionProgress' = 0
               /\ pendingSwitch' = [phase |-> "init", name |-> n, to |-> scenes[n]]
               /\ sceneCalls' = <<SceneCall("init", scenes[n])>>
               /\ sceneInits' = [sceneInits EXCEPT ![n] = Min2(@ + 1, 2)]
               /\ UNCHANGED <<currentScene, transitionFromScene, transitionToScene,
                              sceneInited>>
          ELSE /\ StartTransition(scenes[n])
               /\ sceneCalls' = StartTransitionCalls
               /\ sceneInited' = IF ProgressComplete(Progress(0, transitionDuration))
                                 THEN [current |-> sceneInits[n] >= 1, target |-> FALSE]
                                 ELSE [sceneInited EXCEPT !.target = sceneInits[n] >= 1]
               /\ UNCHANGED sceneInits
       /\ UNCHANGED <<scenes, initializedScenes, transitionDuration, sceneNow>>

\* newScene.init() resolves: switchTo resumes after the await
InitResolved ==
  /\ pendingSwitch.phase = "init"
  /\ initializedScenes' = initializedScenes \cup {pendingSwitch.name}
  /\ StartTransition(pendingSwitch.to)
  /\ sceneCall' = [op |-> "init", result |-> "resolved"]
  /\ sceneCalls' = StartTransitionCalls
  /\ sceneInited' = IF ProgressComplete(Progress(0, transitionDuration))
                    THEN [current |-> TRUE, target |-> FALSE]
                    ELSE [sceneInited EXCEPT !.target = TRUE]
  /\ UNCHANGED sceneInits
  /\ UNCHANGED <<scenes, transitionType, transitionDuration, sceneNow>>

\* newScene.init() rejects: switchTo rejects at the await
InitRejected ==
  /\ pendingSwitch.phase = "init"
  /\ pendingSwitch' = NoSwitch
  /\ sceneCall' = [op |-> "init", result |-> "rejected"]
  /\ sceneCalls' = <<>>
  /\ UNCHANGED <<sceneInits, sceneInited>>
  /\ UNCHANGED <<scenes, initializedScenes, currentScene, transitionFromScene,
                 transitionToScene, transitionActive, transitionProgress,
                 transitionType, transitionDuration, sceneNow>>

\* the animation frame callback registered by updateTransition
TransitionFrame ==
  /\ pendingSwitch.phase = "anim"
  /\ UpdateTransition(pendingSwitch.from, pendingSwitch.to, pendingSwitch.startTime)
  /\ UNCHANGED sceneInits
  /\ UNCHANGED <<scenes, initializedScenes, transitionType, transitionDuration, sceneNow>>

\* destroy(): scene.destroy() for every value of the map, in the map's order
\* (the order of insertion, which the model does not keep: any order)
DestroyCalls ==
  {c \in [1..Cardinality({n \in SceneNames : scenes[n] # NoScene}) -> {SceneCall("destroy", o) : o \in SceneObjs}] :
     \E f \in [1..Len(c) -> {n \in SceneNames : scenes[n] # NoScene}] :
       /\ \A i, j \in 1..Len(c) : f[i] = f[j] => i = j
       /\ \A i \in 1..Len(c) : c[i] = SceneCall("destroy", scenes[f[i]])}

\* destroy()
DestroyScenes ==
  /\ scenes' = [n \in SceneNames |-> NoScene]
  /\ initializedScenes' = {}
  /\ currentScene' = NoScene
  /\ transitionFromScene' = NoScene
  /\ transitionToScene' = NoScene
  /\ sceneCall' = [op |-> "destroy", result |-> "ok"]
  /\ sceneCalls' \in DestroyCalls
  /\ sceneInits' = [n \in SceneNames |-> 0]
  /\ sceneInited' = [sceneInited EXCEPT !.current = FALSE]
  /\ UNCHANGED <<transitionActive, transitionProgress, transitionType,
                 transitionDuration, pendingSwitch, sceneNow>>

\* update(deltaTime): the calls it makes
\* (mutant: the scenes are updated during a transition too)
UpdateCallsInTransition ==
  IF currentScene # NoScene THEN <<SceneCall("update", currentScene)>> ELSE <<>>
UpdateCalls ==
  IF transitionActive THEN <<>>
  ELSE IF currentScene # NoScene THEN <<SceneCall("update", currentScene)>>
  ELSE <<>>

\* update(deltaTime)
SceneUpdate ==
  /\ sceneCall' = [op |-> "update", result |-> "ok"]
  /\ sceneCalls' = UpdateCalls
  /\ UNCHANGED <<scenes, initializedScenes, currentScene, transitionFromScene,
                 transitionToScene, transitionActive, transitionProgress,
                 transitionType, transitionDuration, pendingSwitch, sceneNow,
                 sceneInits, sceneInited>>

\* 1 - progress, in hundredths (NaN for NaN)
OneMinus(p) == IF p = NaN THEN NaN ELSE 100 - p

\* renderFadeTransition(renderer, fromScene, toScene, progress)
RenderFadeTransition(from, to, progress) ==
  <<AlphaCall(OneMinus(progress)), SceneCall("render", from),
    AlphaCall(progress), SceneCall("render", to), AlphaCall(100)>>

\* renderSlideTransition: the scenes it renders, each between pushTransform,
\* translate and popTransform
RenderSlideTransition(from, to) ==
  <<SceneCall("render", from), SceneCall("render", to)>>

\* renderTransition(renderer, fromScene, toScene)
RenderTransition(from, to) ==
  IF transitionType = "fade" THEN RenderFadeTransition(from, to, transitionProgress)
  ELSE IF transitionType \in {"slideLeft", "slideRight", "slideUp", "slideDown"}
  THEN RenderSlideTransition(from, to)
  ELSE <<SceneCall("render", to)>>

\* render(renderer): the calls it makes
RenderCalls ==
  IF transitionActive /\ transitionFromScene # NoScene /\ transitionToScene # NoScene
  THEN RenderTransition(transitionFromScene, transitionToScene)
  ELSE IF currentScene # NoScene THEN <<SceneCall("render", currentScene)>>
  ELSE <<>>

\* render(renderer)
SceneRender ==
  /\ sceneCall' = [op |-> "render", result |-> "ok"]
  /\ sceneCalls' = RenderCalls
  /\ UNCHANGED <<scenes, initializedScenes, currentScene, transitionFromScene,
                 transitionToScene, transitionActive, transitionProgress,
                 transitionType, transitionDuration, pendingSwitch, sceneNow,
                 sceneInits, sceneInited>>

\* setTransitionDuration(duration)
SetTransitionDuration(d) ==
  /\ transitionDuration' = Max2(0, d)
  /\ sceneCall' = OtherCall
  /\ sceneCalls' = <<>>
  /\ UNCHANGED <<sceneInits, sceneInited>>
  /\ UNCHANGED <<scenes, initializedScenes, currentScene, transitionFromScene,
                 transitionToScene, transitionActive, transitionProgress,
                 transitionType, pendingSwitch, sceneNow>>

\* Date.now() advances
SceneTick(d) ==
  /\ sceneNow + d <= MaxSceneTime
  /\ sceneNow' = sceneNow + d
  /\ sceneCall' = OtherCall
  /\ sceneCalls' = <<>>
  /\ UNCHANGED <<sceneInits, sceneInited>>
  /\ UNCHANGED <<scenes, initializedScenes, currentScene, transitionFromScene,
                 transitionToScene, transitionActive, transitionProgress,
                 transitionType, transitionDuration, pendingSwitch>>

SceneNext ==
  \/ (\E n \in SceneNames, o \in SceneObjs : AddScene(n, o)) /\ UNCHANGED <<lifecycleVars, startupVars, rendererVars, gameVars, canvasVars, inputVars, assetVars>>
  \/ (\E n \in SceneNames : RemoveScene(n)) /\ UNCHANGED <<lifecycleVars, startupVars, rendererVars, gameVars, canvasVars, inputVars, assetVars>>
  \/ (\E n \in SceneNames, t \in SwitchTypes : SwitchTo(n, t)) /\ UNCHANGED <<lifecycleVars, startupVars, rendererVars, gameVars, canvasVars, inputVars, assetVars>>
  \/ InitResolved /\ UNCHANGED <<lifecycleVars, startupVars, rendererVars, gameVars, canvasVars, inputVars, assetVars>>
  \/ InitRejected /\ UNCHANGED <<lifecycleVars, startupVars, rendererVars, gameVars, canvasVars, inputVars, assetVars>>
  \/ TransitionFrame /\ UNCHANGED <<lifecycleVars, startupVars, rendererVars, gameVars, canvasVars, inputVars, assetVars>>
  \/ DestroyScenes /\ UNCHANGED <<lifecycleVars, startupVars, rendererVars, gameVars, canvasVars, inputVars, assetVars>>
  \/ SceneUpdate /\ UNCHANGED <<lifecycleVars, startupVars, rendererVars, gameVars, canvasVars, inputVars, assetVars>>
  \/ SceneRender /\ UNCHANGED <<lifecycleVars, startupVars, rendererVars, gameVars, canvasVars, inputVars, assetVars>>
  \/ (\E d \in DurationArgs : SetTransitionDuration(d)) /\ UNCHANGED <<lifecycleVars, startupVars, rendererVars, gameVars, canvasVars, inputVars, assetVars>>
  \/ (\E d \in SceneTicks : SceneTick(d)) /\ UNCHANGED <<lifecycleVars, startupVars, rendererVars, gameVars, canvasVars, inputVars, assetVars>>

\* ---- the scenes' lifecycle over switches
\* no scene has been destroyed
LifecycleInit == sceneDestroyed = {}

\* steps of the clock (ms) between the frames of successive switches
LifecycleTicks == {100}

\* the scenes destroyed since their last init(), after the calls of a step
\* made in order: init() takes a scene out of the set, destroy() puts it in
RECURSIVE DestroyedAfter(_, _)
DestroyedAfter(calls, destroyed) ==
  IF calls = <<>> THEN destroyed
  ELSE DestroyedAfter(Tail(calls),
         IF Head(calls).call = "init" THEN destroyed \ {Head(calls).scene}
         ELSE IF Head(calls).call = "destroy" THEN destroyed \cup {Head(calls).scene}
         ELSE destroyed)

\* a step of the manager, with the record of its init() and destroy() calls
Lifecycle(step) ==
  /\ step
  /\ sceneDestroyed' = DestroyedAfter(sceneCalls', sceneDestroyed)

\* scenes are registered and switched between; none is removed
LifecycleNext ==
  \/ Lifecycle(\E n \in SceneNames, o \in SceneObjs : scenes[n] = NoScene /\ AddScene(n, o))
       /\ UNCHANGED <<startupVars, rendererVars, gameVars, canvasVars, inputVars, assetVars>>
  \/ Lifecycle(\E n \in SceneNames, t \in SwitchTypes : SwitchTo(n, t))
       /\ UNCHANGED <<startupVars, rendererVars, gameVars, canvasVars, inputVars, assetVars>>
  \/ Lifecycle(InitResolved) /\ UNCHANGED <<startupVars, rendererVars, gameVars, canvasVars, inputVars, assetVars>>
  \/ Lifecycle(TransitionFrame) /\ UNCHANGED <<startupVars, rendererVars, gameVars, canvasVars, inputVars, assetVars>>
  \/ Lifecycle(\E d \in DurationArgs : SetTransitionDuration(d))
       /\ UNCHANGED <<startupVars, rendererVars, gameVars, canvasVars, inputVars, assetVars>>
  \/ Lifecycle(\E d \in LifecycleTicks : SceneTick(d))
       /\ UNCHANGED <<startupVars, rendererVars, gameVars, canvasVars, inputVars, assetVars>>

(***************************************************************************)
(*                                  Game                                   *)
(* Times are in units of 1/60 ms, in which fixedTimeStep = 1000 / 60 ms    *)
(* and every multiple of it are integers.                                  *)
(***************************************************************************)

\* ---- bounds of the game model
MaxGameTime == 19000
MaxPendingFrames == 2

\* 1000 / 60 ms and 250 ms, in 1/60 ms
fixedTimeStep == 1000
maxDeltaTime == 15000

GameStates == {"loading", "menu", "playing", "paused", "game_over", "cutscene"}
NoState == "null"
\* the states the model draws for setState's argument
StateArgs == {"menu", "playing", "paused"}
\* steps of the clock, in 1/60 ms: 75 ms and 266.67 ms
GameTicks == {4500, 16000}

\* no gameLoop call has been made in the frame
NoCall == [result |-> "none", delta |-> 0, updates |-> 0, renders |-> 0,
           trace |-> <<>>, inputUpdates |-> 0, sceneUpdates |-> 0]

\* no pause() call is being followed: the Game was called otherwise since
NoPauseCall == [op |-> "none", state |-> NoState]

GameInit ==
  /\ gameState = "loading"
  /\ previousState = NoState
  /\ isRunning = FALSE
  /\ isPaused = FALSE
  /\ lastTime = 0
  /\ accumulator = 0
  /\ gameNow = 0
  /\ framePhase = "idle"
  /\ frameTs = 0
  /\ rafPending = <<>>
  /\ rafRunning = <<>>
  /\ loopCall = NoCall
  /\ pauseCall = NoPauseCall

\* no animation frame callback is being run: a task may call the Game
InTask == framePhase # "callbacks"

\* start(): requestAnimationFrame(this.gameLoop) registers the method unbound
Start ==
  /\ InTask
  /\ isRunning \/ Len(rafPending) < MaxPendingFrames
  /\ IF isRunning
     THEN UNCHANGED <<isRunning, isPaused, lastTime, rafPending>>
     ELSE /\ isRunning' = TRUE
          /\ isPaused' = FALSE
          /\ lastTime' = gameNow
          /\ rafPending' = Append(rafPending, [bound |-> FALSE])
  /\ pauseCall' = NoPauseCall
  /\ UNCHANGED <<gameState, previousState, accumulator, gameNow, framePhase,
                 frameTs, rafRunning, loopCall>>

\* stop()
Stop ==
  /\ InTask
  /\ isRunning' = FALSE
  /\ pauseCall' = NoPauseCall
  /\ UNCHANGED <<gameState, previousState, isPaused, lastTime, accumulator,
                 gameNow, framePhase, frameTs, rafPending, rafRunning, loopCall>>

\* setState(newState), the assignment of this.state
SetStateTo(s) == gameState' = s

\* setState(newState)
SetState(s) ==
  /\ InTask
  /\ SetStateTo(s)
  /\ pauseCall' = NoPauseCall
  /\ UNCHANGED <<previousState, isRunning, isPaused, lastTime, accumulator,
                 gameNow, framePhase, frameTs, rafPending, rafRunning, loopCall>>

\* pause()
Pause ==
  /\ InTask
  /\ IF ~isPaused
     THEN /\ isPaused' = TRUE
          /\ previousState' = gameState
          /\ SetStateTo("paused")
     ELSE UNCHANGED <<isPaused, previousState, gameState>>
  /\ pauseCall' = [op |-> "pause", state |-> gameState]
  /\ UNCHANGED <<isRunning, lastTime, accumulator, gameNow, framePhase,
                 frameTs, rafPending, rafRunning, loopCall>>

\* resume()
Resume ==
  /\ InTask
  /\ IF isPaused
     THEN /\ isPaused' = FALSE
          /\ SetStateTo(IF previousState # NoState THEN previousState ELSE "playing")
     ELSE UNCHANGED <<isPaused, gameState>>
  /\ pauseCall' = IF pauseCall.op = "pause"
                  THEN [pauseCall EXCEPT !.op = "resume"]
                  ELSE NoPauseCall
  /\ UNCHANGED <<previousState, isRunning, lastTime, accumulator, gameNow,
                 framePhase, frameTs, rafPending, rafRunning, loopCall>>

\* gameLoop: Math.min(currentTime - this.lastTime, this.maxDeltaTime)
\* (mutant: the elapsed time is not clamped)
DeltaTimeUnclamped(currentTime) == currentTime - lastTime
DeltaTime(currentTime) == Min2(currentTime - lastTime, maxDeltaTime)

\* gameLoop: while (this.accumulator >= this.fixedTimeStep) { update; subtract }
\* <<the accumulator left, the number of update() calls>>
RECURSIVE Drain(_, _)
Drain(acc, n) ==
  IF acc >= fixedTimeStep THEN Drain(acc - fixedTimeStep, n + 1) ELSE <<acc, n>>

\* update(deltaTime), called n times: the calls it makes on the input
\* handler and on the scene manager
GameUpdate(n) ==
  IF isPaused THEN [input |-> 0, scenes |-> 0] ELSE [input |-> n, scenes |-> n]

\* gameLoop: the calls of update and render, in order
LoopTrace(n) == [i \in 1..n |-> "update"] \o <<"render">>

\* gameLoop(currentTime) with this bound to the Game
GameLoopBody(currentTime) ==
  IF ~isRunning
  THEN /\ loopCall' = [NoCall EXCEPT !.result = "not running"]
       /\ UNCHANGED <<lastTime, accumulator, rafPending>>
  ELSE LET deltaTime == DeltaTime(currentTime)
           drained == Drain(accumulator + deltaTime, 0) IN
       /\ lastTime' = currentTime
       /\ accumulator' = drained[1]
       /\ rafPending' = Append(rafPending, [bound |-> TRUE])
       /\ loopCall' = [result |-> "ok", delta |-> deltaTime,
                       updates |-> drained[2], renders |-> 1,
                       trace |-> LoopTrace(drained[2]),
                       inputUpdates |-> GameUpdate(drained[2]).input,
                       sceneUpdates |-> GameUpdate(drained[2]).scenes]

\* a caller requests a frame for the method bound to the Game, as gameLoop
\* itself does: requestAnimationFrame(this.gameLoop.bind(this))
RequestBoundFrame ==
  /\ InTask
  /\ Len(rafPending) < MaxPendingFrames
  /\ rafPending' = Append(rafPending, [bound |-> TRUE])
  /\ UNCHANGED <<gameState, previousState, isRunning, isPaused, lastTime,
                 accumulator, gameNow, framePhase, frameTs, rafRunning, loopCall,
                 pauseCall>>

\* performance.now() advances
GameTick(d) ==
  /\ InTask
  /\ gameNow + d <= MaxGameTime
  /\ gameNow' = gameNow + d
  /\ UNCHANGED <<gameState, previousState, isRunning, isPaused, lastTime,
                 accumulator, framePhase, frameTs, rafPending, rafRunning, loopCall,
                 pauseCall>>

\* a frame begins: its timestamp is the time of the rendering opportunity,
\* taken before the frame's callbacks are run
BeginFrame ==
  /\ framePhase = "idle"
  /\ rafPending # <<>>
  /\ framePhase' = "begun"
  /\ frameTs' = gameNow
  /\ UNCHANGED <<gameState, previousState, isRunning, isPaused, lastTime,
                 accumulator, gameNow, rafPending, rafRunning, loopCall, pauseCall>>

\* the frame's callbacks are about to run: those registered so far
RunFrameCallbacks ==
  /\ framePhase = "begun"
  /\ framePhase' = "callbacks"
  /\ rafRunning' = rafPending
  /\ rafPending' = <<>>
  /\ UNCHANGED <<gameState, previousState, isRunning, isPaused, lastTime,
                 accumulator, gameNow, frameTs, loopCall, pauseCall>>

\* one callback of the frame is called with the frame's timestamp; the
\* unbound method runs with this undefined and throws at this.isRunning
FrameCallback ==
  /\ framePhase = "callbacks"
  /\ rafRunning # <<>>
  /\ rafRunning' = Tail(rafRunning)
  /\ IF Head(rafRunning).bound
     THEN GameLoopBody(frameTs)
     ELSE /\ loopCall' = [NoCall EXCEPT !.result = "TypeError"]
          /\ UNCHANGED <<lastTime, accumulator, rafPending>>
  /\ UNCHANGED <<gameState, previousState, isRunning, isPaused, gameNow,
                 framePhase, frameTs, pauseCall>>

\* the frame is over
EndFrame ==
  /\ framePhase = "callbacks"
  /\ rafRunning = <<>>
  /\ framePhase' = "idle"
  /\ frameTs' = 0
  /\ loopCall' = NoCall
  /\ UNCHANGED <<gameState, previousState, isRunning, isPaused, lastTime,
                 accumulator, gameNow, rafPending, rafRunning, pauseCall>>

GameNext ==
  \/ Start /\ UNCHANGED <<lifecycleVars, startupVars, rendererVars, sceneVars, canvasVars, inputVars, assetVars>>
  \/ Stop /\ UNCHANGED <<lifecycleVars, startupVars, rendererVars, sceneVars, canvasVars, inputVars, assetVars>>
  \/ (\E s \in StateArgs : SetState(s)) /\ UNCHANGED <<lifecycleVars, startupVars, rendererVars, sceneVars, canvasVars, inputVars, assetVars>>
  \/ Pause /\ UNCHANGED <<lifecycleVars, startupVars, rendererVars, sceneVars, canvasVars, inputVars, assetVars>>
  \/ Resume /\ UNCHANGED <<lifecycleVars, startupVars, rendererVars, sceneVars, canvasVars, inputVars, assetVars>>
  \/ RequestBoundFrame /\ UNCHANGED <<lifecycleVars, startupVars, rendererVars, sceneVars, canvasVars, inputVars, assetVars>>
  \/ (\E d \in GameTicks : GameTick(d)) /\ UNCHANGED <<lifecycleVars, startupVars, rendererVars, sceneVars, canvasVars, inputVars, assetVars>>
  \/ BeginFrame /\ UNCHANGED <<lifecycleVars, startupVars, rendererVars, sceneVars, canvasVars, inputVars, assetVars>>
  \/ RunFrameCallbacks /\ UNCHANGED <<lifecycleVars, startupVars, rendererVars, sceneVars, canvasVars, inputVars, assetVars>>
  \/ FrameCallback /\ UNCHANGED <<lifecycleVars, startupVars, rendererVars, sceneVars, canvasVars, inputVars, assetVars>>
  \/ EndFrame /\ UNCHANGED <<lifecycleVars, startupVars, rendererVars, sceneVars, canvasVars, inputVars, assetVars>>

\* start(), stop() and the browser's frames only: every frame callback is
\* one that start() or gameLoop has registered
LoopNext ==
  \/ Start /\ UNCHANGED <<lifecycleVars, startupVars, rendererVars, sceneVars, canvasVars, inputVars, assetVars>>
  \/ Stop /\ UNCHANGED <<lifecycleVars, startupVars, rendererVars, sceneVars, canvasVars, inputVars, assetVars>>
  \/ (\E d \in GameTicks : GameTick(d)) /\ UNCHANGED <<lifecycleVars, startupVars, rendererVars, sceneVars, canvasVars, inputVars, assetVars>>
  \/ BeginFrame /\ UNCHANGED <<lifecycleVars, startupVars, rendererVars, sceneVars, canvasVars, inputVars, assetVars>>
  \/ RunFrameCallbacks /\ UNCHANGED <<lifecycleVars, startupVars, rendererVars, sceneVars, canvasVars, inputVars, assetVars>>
  \/ FrameCallback /\ UNCHANGED <<lifecycleVars, startupVars, rendererVars, sceneVars, canvasVars, inputVars, assetVars>>
  \/ EndFrame /\ UNCHANGED <<lifecycleVars, startupVars, rendererVars, sceneVars, canvasVars, inputVars, assetVars>>

(***************************************************************************)
(*                          Game: canvas scaling                           *)
(***************************************************************************)

\* the base resolution, canvas.width and canvas.height after setupCanvas
CanvasWidth == 320
CanvasHeight == 180

\* the window sizes the model draws for a resize
ViewportWidths == {0, 319, 320, 640, 959, 960}
ViewportHeights == {0, 179, 180, 360, 540}

\* the window at load, and canvas.style before updateScaling has written it
CanvasInit ==
  /\ scale = 1
  /\ canvasStyle = [width |-> 0, height |-> 0]
  /\ viewport = [width |-> 320, height |-> 180]
  /\ canvasCall = "none"

\* updateScaling: Math.max(1, ..)
\* (mutant: the scale is not raised to 1)
AtLeastOneDropped(s) == s
AtLeastOne(s) == Max2(1, s)

\* updateScaling: Math.max(1, Math.floor(Math.min(scaleX, scaleY))) for
\* scaleX = viewportWidth / 320 and scaleY = viewportHeight / 180; the floor
\* of the smaller quotient is the smaller of the two floors
ScaleFor(viewportWidth, viewportHeight) ==
  AtLeastOne(Min2(viewportWidth \div CanvasWidth, viewportHeight \div CanvasHeight))

\* updateScaling()
UpdateScaling ==
  LET s == ScaleFor(viewport.width, viewport.height) IN
  /\ scale' = s
  /\ canvasStyle' = [width |-> CanvasWidth * s, height |-> CanvasHeight * s]

\* setupCanvas(), called by init()
SetupCanvas ==
  /\ UpdateScaling
  /\ canvasCall' = "setupCanvas"
  /\ UNCHANGED viewport

\* the window gets another size; its resize event has not been handled
WindowResized(w, h) ==
  /\ viewport # [width |-> w, height |-> h]
  /\ viewport' = [width |-> w, height |-> h]
  /\ canvasCall' = "resize pending"
  /\ UNCHANGED <<scale, canvasStyle>>

\* handleResize(), the handler of the window's resize event; the current
\* scene's handleResize changes nothing of the Game
HandleResize ==
  /\ UpdateScaling
  /\ canvasCall' = "handleResize"
  /\ UNCHANGED viewport

CanvasNext ==
  \/ SetupCanvas /\ UNCHANGED <<lifecycleVars, startupVars, rendererVars, sceneVars, gameVars, inputVars, assetVars>>
  \/ (\E w \in ViewportWidths, h \in ViewportHeights : WindowResized(w, h))
       /\ UNCHANGED <<lifecycleVars, startupVars, rendererVars, sceneVars, gameVars, inputVars, assetVars>>
  \/ HandleResize /\ UNCHANGED <<lifecycleVars, startupVars, rendererVars, sceneVars, gameVars, inputVars, assetVars>>

(***************************************************************************)
(*                    Renderer (main.ts) and its context                   *)
(* The context's transform is kept as the matrix [a 0 0 a e f]: the model  *)
(* scales by the same factor on both axes, as applyCameraTransform does.   *)
(***************************************************************************)

IdentityTransform == [a |-> 1, e |-> 0, f |-> 0]

\* the camera positions and zooms setCamera is called with
CameraXs == {0 - 5, 7}
CameraYs == {0, 3}
CameraZooms == {0, 1, 2}

\* the offsets a scene passes to translate
SceneOffsets == {<<10, 0>>, <<0, 10>>}

\* how deep a scene nests pushTransform, and how far it translates
MaxSaveDepth == 2
MaxTranslate == 10

\* the transition progress values a frame renders with (hundredths; NaN
\* for a duration of 0)
RenderProgresses == {NaN, 0, 25, 100}

\* a new context, and the Renderer's fields as declared
RendererInit ==
  /\ ctx = [transform |-> IdentityTransform, stack |-> <<>>]
  /\ camera = [x |-> 0, y |-> 0, zoom |-> 1]
  /\ rendererCall = [op |-> "none"]

\* ctx.save()
CtxSave(c) == [c EXCEPT !.stack = Append(@, c.transform)]

\* ctx.restore(): pops the saved state; does nothing on an empty stack
\* (mutant: restore is left out)
CtxRestoreDropped(c) == c
CtxRestore(c) ==
  IF c.stack = <<>> THEN c
  ELSE [transform |-> c.stack[Len(c.stack)],
        stack |-> SubSeq(c.stack, 1, Len(c.stack) - 1)]

\* ctx.translate(x, y) and ctx.scale(z, z): the current transform is
\* multiplied on the right
CtxTranslate(c, x, y) ==
  [c EXCEPT !.transform.e = @ + c.transform.a * x,
            !.transform.f = @ + c.transform.a * y]
CtxScale(c, z) == [c EXCEPT !.transform.a = @ * z]

\* applyCameraTransform()
ApplyCameraTransform(c) ==
  CtxScale(CtxTranslate(c, 0 - camera.x, 0 - camera.y), camera.zoom)

\* drawText, drawSprite, drawRect, drawPixel: save, camera transform, the
\* fill or drawImage call (which leaves the transform alone), restore
DrawText(c) == CtxRestore(ApplyCameraTransform(CtxSave(c)))
DrawSprite(c) == CtxRestore(ApplyCameraTransform(CtxSave(c)))
DrawRect(c) == CtxRestore(ApplyCameraTransform(CtxSave(c)))
DrawPixel(c) == CtxRestore(ApplyCameraTransform(CtxSave(c)))

DrawOps == {"drawText", "drawSprite", "drawRect", "drawPixel"}

DrawOp(op, c) ==
  CASE op = "drawText" -> DrawText(c)
    [] op = "drawSprite" -> DrawSprite(c)
    [] op = "drawRect" -> DrawRect(c)
    [] op = "drawPixel" -> DrawPixel(c)

\* scene.render(renderer) of a scene that draws with the Renderer's draw
\* operations (MenuScene.render draws nothing)
SceneRenderCtx(c) == DrawPixel(DrawRect(DrawSprite(DrawText(c))))

\* renderer.translate(offset) of renderSlideTransition: the canvas ignores
\* a translate whose argument is not finite (progress NaN)
SlideTranslate(c, progress, x, y) ==
  IF progress = NaN THEN c ELSE CtxTranslate(c, x, y)

\* renderSlideTransition: pushTransform, translate, fromScene.render,
\* popTransform, and the same for toScene; offsets in pixels
RenderSlideTransitionCtx(c, progress, direction) ==
  LET w == (CanvasWidth * progress) \div 100
      h == (CanvasHeight * progress) \div 100
      fromX == IF direction = "slideLeft" THEN w
               ELSE IF direction = "slideRight" THEN 0 - w ELSE 0
      fromY == IF direction = "slideUp" THEN h
               ELSE IF direction = "slideDown" THEN 0 - h ELSE 0
      toX == IF direction = "slideLeft" THEN 0 - (CanvasWidth - w)
             ELSE IF direction = "slideRight" THEN CanvasWidth - w ELSE 0
      toY == IF direction = "slideUp" THEN 0 - (CanvasHeight - h)
             ELSE IF direction = "slideDown" THEN CanvasHeight - h ELSE 0
      out == CtxRestore(SceneRenderCtx(SlideTranslate(CtxSave(c), progress, fromX, fromY)))
  IN CtxRestore(SceneRenderCtx(SlideTranslate(CtxSave(out), progress, toX, toY)))

\* renderFadeTransition: setGlobalAlpha and the two scenes' render
RenderFadeTransitionCtx(c) == SceneRenderCtx(SceneRenderCtx(c))

\* renderTransition(renderer, fromScene, toScene)
RenderTransitionCtx(c, type, progress) ==
  IF type = "fade" THEN RenderFadeTransitionCtx(c)
  ELSE IF type \in {"slideLeft", "slideRight", "slideUp", "slideDown"}
  THEN RenderSlideTransitionCtx(c, progress, type)
  ELSE SceneRenderCtx(c)

\* setCamera(x, y, zoom)
SetCamera(x, y, zoom) ==
  /\ camera' = [x |-> x, y |-> y, zoom |-> zoom]
  /\ rendererCall' = [op |-> "setCamera"]
  /\ UNCHANGED ctx

\* one of the four draw operations is called
RendererDraw(op) ==
  /\ ctx' = DrawOp(op, ctx)
  /\ rendererCall' = [op |-> op]
  /\ UNCHANGED camera

\* pushTransform(), translate(x, y), popTransform() called by a scene
PushTransform ==
  /\ Len(ctx.stack) < MaxSaveDepth
  /\ ctx' = CtxSave(ctx)
  /\ rendererCall' = [op |-> "pushTransform"]
  /\ UNCHANGED camera

Translate(x, y) ==
  /\ ctx.transform.e + x <= MaxTranslate
  /\ ctx.transform.f + y <= MaxTranslate
  /\ ctx' = CtxTranslate(ctx, x, y)
  /\ rendererCall' = [op |-> "translate"]
  /\ UNCHANGED camera

PopTransform ==
  /\ ctx' = CtxRestore(ctx)
  /\ rendererCall' = [op |-> "popTransform"]
  /\ UNCHANGED camera

\* SceneManager.render during a transition with both scenes set
RendererTransition(type, progress) ==
  /\ ctx' = RenderTransitionCtx(ctx, type, progress)
  /\ rendererCall' = [op |-> "renderTransition", type |-> type,
                      progress |-> progress]
  /\ UNCHANGED camera

RendererNext ==
  \/ (\E x \in CameraXs, y \in CameraYs, z \in CameraZooms : SetCamera(x, y, z))
       /\ UNCHANGED <<lifecycleVars, startupVars, sceneVars, gameVars, canvasVars, inputVars,
                    assetVars>>
  \/ (\E op \in DrawOps : RendererDraw(op))
       /\ UNCHANGED <<lifecycleVars, startupVars, sceneVars, gameVars, canvasVars, inputVars,
                    assetVars>>
  \/ PushTransform
       /\ UNCHANGED <<lifecycleVars, startupVars, sceneVars, gameVars, canvasVars, inputVars,
                    assetVars>>
  \/ (\E o \in SceneOffsets : Translate(o[1], o[2]))
       /\ UNCHANGED <<lifecycleVars, startupVars, sceneVars, gameVars, canvasVars, inputVars,
                    assetVars>>
  \/ PopTransform
       /\ UNCHANGED <<lifecycleVars, startupVars, sceneVars, gameVars, canvasVars, inputVars,
                    assetVars>>
  \/ (\E type \in TransitionTypes, p \in RenderProgresses : RendererTransition(type, p))
       /\ UNCHANGED <<lifecycleVars, startupVars, sceneVars, gameVars, canvasVars, inputVars,
                    assetVars>>

\* new Game(canvas) has returned; game.init() has not been called
StartupInit ==
  /\ bootPhase = "constructed"
  /\ consoleErrors = {}

(***************************************************************************)
(*                              AssetManager                               *)
(* A step is one call of the manager or the settlement of one              *)
(* loadAssetData promise, together with the promise continuations that     *)
(* run before the next task: the rest of loadAsset, the catch of           *)
(* loadAssets and, when it was the last of its batch, the rest of          *)
(* loadAssets after Promise.all.                                           *)
(***************************************************************************)

\* ---- bound of the asset model: the loadAssetData calls of a run
MaxRecords == 3

AssetIds == {"a", "b"}
NoRecord == 0
\* the request lists given to loadAssets
RequestLists == {<<"a">>, <<"b">>, <<"a", "b">>}

AssetInit ==
  /\ assets = [id \in AssetIds |-> NoRecord]
  /\ totalAssets = 0
  /\ loadedAssets = 0
  /\ failedAssets = 0
  /\ loadPromises = [id \in AssetIds |-> NoRecord]
  /\ records = <<>>
  /\ loads = {}
  /\ batches = {}
  /\ assetCall = [op |-> "none"]

\* isFullyLoaded() for the given counters
IsFullyLoadedAt(total, loaded, failed) ==
  IF total = 0 THEN TRUE ELSE (loaded + failed) >= total

\* isFullyLoaded()
IsFullyLoaded == IsFullyLoadedAt(totalAssets, loadedAssets, failedAssets)

\* getProgress() for the given counters (total, loaded, failed; percentage
\* rounded down)
GetProgressAt(total, loaded, failed) ==
  [total |-> total, loaded |-> loaded, failed |-> failed,
   percentage |-> Min2(((loaded + failed) * 100) \div Max2(total, 1), 100)]

\* loadAsset: the map has the id and its asset is loaded
\* (mutant: the cache is never used)
IsCachedNever(st, id) == FALSE
IsCached(st, id) == st.assets[id] # NoRecord /\ st.records[st.assets[id]].loaded

\* loadAsset(request) up to its await, from the state st = [assets, records,
\* loadPromises, loads, slots]: slots gets the promise loadAsset returns, as
\* the record it is about and whether it is settled
LoadAssetSync(st, id) ==
  IF IsCached(st, id)
  THEN [st EXCEPT !.slots = Append(st.slots, [rec |-> st.assets[id], state |-> "ok"])]
  ELSE LET r == Len(st.records) + 1
       IN [assets |-> [st.assets EXCEPT ![id] = r],
           records |-> Append(st.records, [id |-> id, loaded |-> FALSE, error |-> FALSE]),
           loadPromises |-> [st.loadPromises EXCEPT ![id] = r],
           loads |-> st.loads \cup {r},
           slots |-> Append(st.slots, [rec |-> r, state |-> "pending"])]

\* requests.map(request => this.loadAsset(request)...)
RECURSIVE LoadAllSync(_, _)
LoadAllSync(st, requests) ==
  IF requests = <<>> THEN st
  ELSE LoadAllSync(LoadAssetSync(st, Head(requests)), Tail(requests))

ManagerState ==
  [assets |-> assets, records |-> records, loadPromises |-> loadPromises,
   loads |-> loads, slots |-> <<>>]

\* results.filter(asset => asset !== null)
SuccessfulLoads(slots) == {i \in 1..Len(slots) : slots[i].state = "ok"}

Pending(slots) == {i \in 1..Len(slots) : slots[i].state = "pending"}

\* loadAssets resolves with the slots' successful loads, for the counters
\* given: what its caller then sees
BatchResolved(slots, total, loaded, failed) ==
  [op |-> "loadAssets resolved",
   requested |-> Len(slots),
   returned |-> Cardinality(SuccessfulLoads(slots)),
   rejected |-> Cardinality({i \in 1..Len(slots) : slots[i].state = "failed"}),
   progress |-> GetProgressAt(total, loaded, failed),
   fullyLoaded |-> IsFullyLoadedAt(total, loaded, failed)]

\* loadAsset(request) called on its own
LoadAsset(id) ==
  LET st == LoadAssetSync(ManagerState, id) IN
  /\ Len(st.records) <= MaxRecords
  /\ assets' = st.assets
  /\ records' = st.records
  /\ loadPromises' = st.loadPromises
  /\ loads' = st.loads
  /\ assetCall' = [op |-> "loadAsset", id |-> id, slot |-> st.slots[1]]
  /\ UNCHANGED <<totalAssets, loadedAssets, failedAssets, batches>>

\* loadAssets(requests); with every request served from the cache the
\* returned promise resolves before the next task
LoadAssets(requests) ==
  LET st == LoadAllSync(ManagerState, requests) IN
  /\ Len(st.records) <= MaxRecords
  /\ totalAssets' = Len(requests)
  /\ loadedAssets' = 0
  /\ failedAssets' = 0
  /\ assets' = st.assets
  /\ records' = st.records
  /\ loadPromises' = st.loadPromises
  /\ loads' = st.loads
  /\ IF Pending(st.slots) = {}
     THEN /\ batches' = batches
          /\ assetCall' = BatchResolved(st.slots, Len(requests), 0, 0)
     ELSE /\ batches' = batches \cup {st.slots}
          /\ assetCall' = [op |-> "loadAssets", requested |-> Len(requests)]

\* the batch whose request is served by record r, with that request settled
SettleSlot(slots, r, outcome) ==
  [i \in 1..Len(slots) |->
     IF slots[i].rec = r /\ slots[i].state = "pending"
     THEN [slots[i] EXCEPT !.state = outcome] ELSE slots[i]]

BatchOf(r) ==
  {b \in batches : \E i \in 1..Len(b) : b[i].rec = r /\ b[i].state = "pending"}

\* the continuations after record r's load has settled with the outcome
\* given and the counters have become total, loaded, failed
Settled(r, outcome, total, loaded, failed) ==
  /\ loads' = loads \ {r}
  /\ loadPromises' = [loadPromises EXCEPT ![records[r].id] = NoRecord]
  /\ IF BatchOf(r) = {}
     THEN /\ batches' = batches
          /\ assetCall' = [op |-> "loadAsset settled", outcome |-> outcome]
     ELSE LET b == CHOOSE b \in BatchOf(r) : TRUE
              slots == SettleSlot(b, r, outcome)
          IN IF Pending(slots) = {}
             THEN /\ batches' = batches \ {b}
                  /\ assetCall' = BatchResolved(slots, total, loaded, failed)
             ELSE /\ batches' = (batches \ {b}) \cup {slots}
                  /\ assetCall' = [op |-> "loadAsset settled", outcome |-> outcome]

\* record r's loadAssetData promise fulfils: loadAsset's try block
LoadSucceeds(r) ==
  /\ r \in loads
  /\ records' = [records EXCEPT ![r].loaded = TRUE]
  /\ loadedAssets' = loadedAssets + 1
  /\ Settled(r, "ok", totalAssets, loadedAssets + 1, failedAssets)
  /\ UNCHANGED <<assets, totalAssets, failedAssets>>

\* record r's loadAssetData promise rejects: loadAsset's catch block
LoadFails(r) ==
  /\ r \in loads
  /\ records' = [records EXCEPT ![r].error = TRUE]
  /\ failedAssets' = failedAssets + 1
  /\ Settled(r, "failed", totalAssets, loadedAssets, failedAssets + 1)
  /\ UNCHANGED <<assets, totalAssets, loadedAssets>>

\* unloadAsset(id)
UnloadAsset(id) ==
  /\ assets' = [assets EXCEPT ![id] = NoRecord]
  /\ assetCall' = [op |-> "unloadAsset", id |-> id]
  /\ UNCHANGED <<totalAssets, loadedAssets, failedAssets, loadPromises, records,
                 loads, batches>>

\* unloadAllAssets()
UnloadAllAssets ==
  /\ assets' = [id \in AssetIds |-> NoRecord]
  /\ totalAssets' = 0
  /\ loadedAssets' = 0
  /\ failedAssets' = 0
  /\ loadPromises' = [id \in AssetIds |-> NoRecord]
  /\ assetCall' = [op |-> "unloadAllAssets"]
  /\ UNCHANGED <<records, loads, batches>>

AssetNext ==
  \/ (\E id \in AssetIds : LoadAsset(id)) /\ UNCHANGED <<lifecycleVars, startupVars, rendererVars, sceneVars, gameVars, canvasVars, inputVars>>
  \/ (\E requests \in RequestLists : LoadAssets(requests))
       /\ UNCHANGED <<lifecycleVars, startupVars, rendererVars, sceneVars, gameVars, canvasVars, inputVars>>
  \/ (\E r \in loads : LoadSucceeds(r)) /\ UNCHANGED <<lifecycleVars, startupVars, rendererVars, sceneVars, gameVars, canvasVars, inputVars>>
  \/ (\E r \in loads : LoadFails(r)) /\ UNCHANGED <<lifecycleVars, startupVars, rendererVars, sceneVars, gameVars, canvasVars, inputVars>>
  \/ (\E id \in AssetIds : UnloadAsset(id)) /\ UNCHANGED <<lifecycleVars, startupVars, rendererVars, sceneVars, gameVars, canvasVars, inputVars>>
  \/ UnloadAllAssets /\ UNCHANGED <<lifecycleVars, startupVars, rendererVars, sceneVars, gameVars, canvasVars, inputVars>>

(***************************************************************************)
(*                              InputHandler                               *)
(* Coordinates are clientX - rect.left and clientY - rect.top, in whole    *)
(* pixels. A touch event is modelled with one changed touch: the handlers  *)
(* loop over event.changedTouches and treat each touch on its own, so an   *)
(* event with several touches is a sequence of these steps with no tick    *)
(* between them.                                                           *)
(***************************************************************************)

\* ---- bounds of the input model
MaxTouches == 2
MaxTimers == 2
MaxInputTime == 750

TAP_TIMEOUT == 300
SWIPE_THRESHOLD == 30
LONG_PRESS_TIMEOUT == 500
TapDistance == 10
JoystickRadius == 50

TouchIds == {0, 1}
\* touchId: null, which is no touch identifier
NoTouchId == 0 - 1
\* the points touches start at and move to, and the steps of the clock (ms)
TouchPoints == {<<100, 100>>, <<140, 100>>, <<180, 100>>}
InputTicks == {250}

Abs(v) == IF v < 0 THEN 0 - v ELSE v
Sq(v) == v * v

\* Math.sqrt(dx * dx + dy * dy) compared with r, for r >= 0: the comparisons
\* of the square roots are those of the squares
DistanceLt(dx, dy, r) == Sq(dx) + Sq(dy) < Sq(r)
DistanceLe(dx, dy, r) == Sq(dx) + Sq(dy) <= Sq(r)
DistanceGt(dx, dy, r) == Sq(dx) + Sq(dy) > Sq(r)

\* Math.cos(angle) * r (d = dx) or Math.sin(angle) * r (d = dy), for
\* angle = Math.atan2(dy, dx): d * r / sqrt(dx * dx + dy * dy), rounded
\* towards zero to a whole pixel
ClampOffset(d, dx, dy, r) ==
  LET k == Cardinality({j \in 1..r : Sq(j) * (Sq(dx) + Sq(dy)) <= Sq(Abs(d) * r)})
  IN IF d < 0 THEN 0 - k ELSE k

NoCallYet == [op |-> "none", events |-> <<>>]

InputInit ==
  /\ touches = <<>>
  /\ virtualJoystick = [x |-> 0, y |-> 0, radius |-> JoystickRadius,
                        active |-> FALSE, touchId |-> NoTouchId]
  /\ timers = <<>>
  /\ inputNow = 0
  /\ inputCall = NoCallYet
  /\ targetTouches = {}

\* this.state.touches.findIndex(t => t.id === id): 0 for -1
FindIndex(id) ==
  IF \E i \in 1..Len(touches) : touches[i].id = id
  THEN CHOOSE i \in 1..Len(touches) :
         /\ touches[i].id = id
         /\ \A j \in 1..(i - 1) : touches[j].id # id
  ELSE 0

\* this.state.touches.splice(i, 1)
Splice(i) == [j \in 1..(Len(touches) - 1) |-> IF j < i THEN touches[j] ELSE touches[j + 1]]

\* activateVirtualJoystick(x, y, touchId)
ActivateVirtualJoystick(x, y, touchId) ==
  [x |-> x, y |-> y, radius |-> JoystickRadius, active |-> TRUE, touchId |-> touchId]

\* updateVirtualJoystick(x, y): the joystick after the call
\* dx and dy are taken from the joystick's own position
UpdateVirtualJoystick(x, y) ==
  IF ~virtualJoystick.active
  THEN virtualJoystick
  ELSE LET dx == x - virtualJoystick.x
           dy == y - virtualJoystick.y
           maxDistance == virtualJoystick.radius
       IN IF DistanceLe(dx, dy, maxDistance)
          THEN [virtualJoystick EXCEPT !.x = x, !.y = y]
          ELSE [virtualJoystick EXCEPT
                  !.x = virtualJoystick.x + ClampOffset(dx, dx, dy, maxDistance),
                  !.y = virtualJoystick.y + ClampOffset(dy, dx, dy, maxDistance)]

\* deactivateVirtualJoystick()
DeactivateVirtualJoystick ==
  [virtualJoystick EXCEPT !.active = FALSE, !.touchId = NoTouchId]

\* getSwipeDirection(deltaX, deltaY)
GetSwipeDirection(deltaX, deltaY) ==
  IF Abs(deltaX) > Abs(deltaY)
  THEN (IF deltaX > 0 THEN "right" ELSE "left")
  ELSE (IF deltaY > 0 THEN "down" ELSE "up")

\* completeGestureRecognition: the test for a tap
\* (mutant: a displacement of exactly 10 px counts as a tap)
IsTapInclusive(touchDuration, deltaX, deltaY) ==
  touchDuration <= TAP_TIMEOUT /\ DistanceLe(deltaX, deltaY, TapDistance)
IsTap(touchDuration, deltaX, deltaY) ==
  touchDuration <= TAP_TIMEOUT /\ DistanceLt(deltaX, deltaY, TapDistance)

\* completeGestureRecognition(touchInfo) at Date.now() = now: the events it emits
CompleteGestureRecognition(touchInfo, now) ==
  LET touchDuration == now - touchInfo.startTime
      deltaX == touchInfo.x - touchInfo.startX
      deltaY == touchInfo.y - touchInfo.startY
  IN IF IsTap(touchDuration, deltaX, deltaY)
     THEN <<[type |-> "tap", id |-> touchInfo.id]>>
     ELSE IF DistanceGt(deltaX, deltaY, SWIPE_THRESHOLD)
     THEN <<[type |-> "swipe", id |-> touchInfo.id,
             direction |-> GetSwipeDirection(deltaX, deltaY),
             deltaX |-> deltaX, deltaY |-> deltaY]>>
     ELSE <<>>

\* the browser has a touch with this identifier on the canvas
TouchIsDown(id) == id \in targetTouches

\* handleTouchStart for one changed touch; startGestureRecognition arms the
\* long-press timer. longPresses counts the longPress events emitted with
\* this TouchInfo (it is not a field of the source's TouchInfo).
HandleTouchStart(id, p) ==
  /\ ~TouchIsDown(id)
  /\ Len(touches) < MaxTouches
  /\ Len(timers) < MaxTimers
  /\ LET touchInfo == [id |-> id, x |-> p[1], y |-> p[2], startX |-> p[1],
                       startY |-> p[2], startTime |-> inputNow, longPresses |-> 0]
     IN /\ touches' = Append(touches, touchInfo)
        /\ virtualJoystick' = IF touchInfo.x * 2 < CanvasWidth
                              THEN ActivateVirtualJoystick(touchInfo.x, touchInfo.y, id)
                              ELSE virtualJoystick
        /\ timers' = Append(timers, [id |-> id, due |-> inputNow + LONG_PRESS_TIMEOUT])
  /\ inputCall' = [op |-> "touchstart", events |-> <<>>]
  /\ targetTouches' = targetTouches \cup {id}
  /\ UNCHANGED <<inputNow, gestureArg>>

\* handleTouchMove for one changed touch
HandleTouchMove(id, p) ==
  /\ TouchIsDown(id)
  /\ LET i == FindIndex(id) IN
     /\ touches' = [touches EXCEPT ![i].x = p[1], ![i].y = p[2]]
     /\ virtualJoystick' = IF virtualJoystick.active /\ virtualJoystick.touchId = id
                           THEN UpdateVirtualJoystick(p[1], p[2])
                           ELSE virtualJoystick
  /\ inputCall' = [op |-> "touchmove", events |-> <<>>]
  /\ UNCHANGED <<timers, inputNow, targetTouches, gestureArg>>

\* handleTouchEnd for one changed touch
HandleTouchEnd(id) ==
  /\ TouchIsDown(id)
  /\ LET i == FindIndex(id) IN
     /\ inputCall' = [op |-> "touchend",
                      events |-> CompleteGestureRecognition(touches[i], inputNow),
                      duration |-> inputNow - touches[i].startTime,
                      deltaX |-> touches[i].x - touches[i].startX,
                      deltaY |-> touches[i].y - touches[i].startY,
                      longPresses |-> touches[i].longPresses]
     /\ touches' = Splice(i)
  /\ virtualJoystick' = IF virtualJoystick.touchId = id
                        THEN DeactivateVirtualJoystick
                        ELSE virtualJoystick
  /\ targetTouches' = targetTouches \ {id}
  /\ UNCHANGED <<timers, inputNow, gestureArg>>

\* the browser cancels a touch (touchcancel): setupEventListeners registers
\* no listener for it, so no handler runs
TouchCancel(id) ==
  /\ TouchIsDown(id)
  /\ targetTouches' = targetTouches \ {id}
  /\ inputCall' = [op |-> "touchcancel", events |-> <<>>]
  /\ UNCHANGED <<touches, virtualJoystick, timers, inputNow, gestureArg>>

\* the callback of startGestureRecognition's setTimeout, run when the delay
\* expires: timers run in the order of their expiry
LongPressTimer ==
  /\ timers # <<>>
  /\ Head(timers).due = inputNow
  /\ timers' = Tail(timers)
  /\ LET i == FindIndex(Head(timers).id) IN
     IF i # 0
     THEN /\ touches' = [touches EXCEPT ![i].longPresses = @ + 1]
          /\ inputCall' = [op |-> "timer",
                           events |-> <<[type |-> "longPress", id |-> touches[i].id,
                                         startTime |-> touches[i].startTime]>>]
     ELSE /\ inputCall' = [op |-> "timer", events |-> <<>>]
          /\ UNCHANGED touches
  /\ UNCHANGED <<virtualJoystick, inputNow, targetTouches, gestureArg>>

\* !this.virtualJoystick.touchId: null and the identifier 0 are falsy
NotTouchId(touchId) == touchId = NoTouchId \/ touchId = 0

\* d / m in hundredths, rounded towards zero, for m > 0
Hundredths(d, m) ==
  IF d < 0 THEN 0 - ((Abs(d) * 100) \div m) ELSE (d * 100) \div m

\* getVirtualJoystick: distance <= maxDistance
\* (mutant: every distance counts as within the radius)
DistanceWithinMaxAlways(dx, dy, maxDistance) == TRUE
DistanceWithinMax(dx, dy, maxDistance) == DistanceLe(dx, dy, maxDistance)

\* the value getVirtualJoystick returns for no joystick
NoJoystick == [x |-> 0, y |-> 0, active |-> FALSE]

\* getVirtualJoystick(): x and y in hundredths
GetVirtualJoystick ==
  IF ~virtualJoystick.active \/ NotTouchId(virtualJoystick.touchId)
  THEN NoJoystick
  ELSE LET i == FindIndex(virtualJoystick.touchId) IN
       IF i = 0
       THEN NoJoystick
       ELSE LET dx == virtualJoystick.x - touches[i].startX
                dy == virtualJoystick.y - touches[i].startY
                maxDistance == virtualJoystick.radius
            IN [x |-> IF DistanceWithinMax(dx, dy, maxDistance)
                      THEN Hundredths(dx, maxDistance)
                      ELSE ClampOffset(dx, dx, dy, 100),
                y |-> IF DistanceWithinMax(dx, dy, maxDistance)
                      THEN Hundredths(dy, maxDistance)
                      ELSE ClampOffset(dy, dx, dy, 100),
                active |-> TRUE]

\* Date.now() advances, up to the expiry of the next timer
InputTick(d) ==
  /\ inputNow + d <= MaxInputTime
  /\ \A i \in 1..Len(timers) : inputNow + d <= timers[i].due
  /\ inputNow' = inputNow + d
  /\ inputCall' = NoCallYet
  /\ UNCHANGED <<touches, virtualJoystick, timers, targetTouches, gestureArg>>

InputNext ==
  \/ (\E id \in TouchIds, p \in TouchPoints : HandleTouchStart(id, p))
       /\ UNCHANGED <<lifecycleVars, startupVars, rendererVars, sceneVars, gameVars, canvasVars, assetVars>>
  \/ (\E id \in TouchIds, p \in TouchPoints : HandleTouchMove(id, p))
       /\ UNCHANGED <<lifecycleVars, startupVars, rendererVars, sceneVars, gameVars, canvasVars, assetVars>>
  \/ (\E id \in TouchIds : HandleTouchEnd(id)) /\ UNCHANGED <<lifecycleVars, startupVars, rendererVars, sceneVars, gameVars, canvasVars, assetVars>>
  \/ (\E id \in TouchIds : TouchCancel(id)) /\ UNCHANGED <<lifecycleVars, startupVars, rendererVars, sceneVars, gameVars, canvasVars, assetVars>>
  \/ LongPressTimer /\ UNCHANGED <<lifecycleVars, startupVars, rendererVars, sceneVars, gameVars, canvasVars, assetVars>>
  \/ (\E d \in InputTicks : InputTick(d)) /\ UNCHANGED <<lifecycleVars, startupVars, rendererVars, sceneVars, gameVars, canvasVars, assetVars>>

\* ---- the joystick under touches that start at and move to points off the
\*      horizontal line, all within one millisecond: no timer expires
JoystickPoints == {<<100, 100>>, <<130, 140>>, <<60, 20>>}
JoystickIds == {1}

JoystickNext ==
  \/ (\E id \in JoystickIds, p \in JoystickPoints : HandleTouchStart(id, p))
       /\ UNCHANGED <<lifecycleVars, startupVars, rendererVars, sceneVars, gameVars, canvasVars, assetVars>>
  \/ (\E id \in JoystickIds, p \in JoystickPoints : HandleTouchMove(id, p))
       /\ UNCHANGED <<lifecycleVars, startupVars, rendererVars, sceneVars, gameVars, canvasVars, assetVars>>
  \/ (\E id \in JoystickIds : HandleTouchEnd(id)) /\ UNCHANGED <<lifecycleVars, startupVars, rendererVars, sceneVars, gameVars, canvasVars, assetVars>>
  \/ (\E id \in JoystickIds : TouchCancel(id)) /\ UNCHANGED <<lifecycleVars, startupVars, rendererVars, sceneVars, gameVars, canvasVars, assetVars>>

\* ---- touches on the canvas as it is displayed
\* the points of the displayed canvas (CSS pixels from its left top corner)
\* touches start at
DisplayedPoints == {<<100, 100>>, <<200, 100>>, <<400, 100>>}
DisplayedTouchIds == {1, 2}

\* a touch starts on the canvas: the point lies within the rectangle
\* getBoundingClientRect() returns, whose size updateScaling has set
DisplayedTouchStart(id, p) ==
  /\ canvasCall # "none"
  /\ p[1] < canvasStyle.width
  /\ p[2] < canvasStyle.height
  /\ HandleTouchStart(id, p)

DisplayedTouchNext ==
  \/ SetupCanvas /\ UNCHANGED <<lifecycleVars, startupVars, rendererVars, sceneVars, gameVars, inputVars, assetVars>>
  \/ (\E w \in ViewportWidths, h \in ViewportHeights : WindowResized(w, h))
       /\ UNCHANGED <<lifecycleVars, startupVars, rendererVars, sceneVars, gameVars, inputVars, assetVars>>
  \/ HandleResize /\ UNCHANGED <<lifecycleVars, startupVars, rendererVars, sceneVars, gameVars, inputVars, assetVars>>
  \/ (\E id \in DisplayedTouchIds, p \in DisplayedPoints : DisplayedTouchStart(id, p))
       /\ UNCHANGED <<lifecycleVars, startupVars, rendererVars, sceneVars, gameVars, canvasVars, assetVars>>
  \/ (\E id \in DisplayedTouchIds : HandleTouchEnd(id))
       /\ UNCHANGED <<lifecycleVars, startupVars, rendererVars, sceneVars, gameVars, canvasVars, assetVars>>

\* ---- completeGestureRecognition as a function of its argument
GestureDeltas == {-40, -31, -30, -10, -9, 0, 9, 10, 30, 31, 40}
GestureDurations == {100, 300, 301, 600}
NoGestureArg == [id |-> NoTouchId]

\* a touch that started at (100, 100), moved by (dx, dy) and lasted d ms
GestureArgs ==
  {[id |-> 0, x |-> 100 + dx, y |-> 100 + dy, startX |-> 100, startY |-> 100,
    startTime |-> 0, longPresses |-> 0, endTime |-> d] :
      dx \in GestureDeltas, dy \in GestureDeltas, d \in GestureDurations}

GestureInit ==
  /\ SceneInit /\ LifecycleInit /\ GameInit /\ CanvasInit /\ StartupInit
  /\ RendererInit
  /\ InputInit /\ AssetInit
  /\ gestureArg \in GestureArgs

\* completeGestureRecognition(gestureArg) is called at Date.now() = endTime
ApplyGesture ==
  /\ gestureArg # NoGestureArg
  /\ inputCall.op = "none"
  /\ inputCall' = [op |-> "touchend",
                   events |-> CompleteGestureRecognition(gestureArg, gestureArg.endTime),
                   duration |-> gestureArg.endTime - gestureArg.startTime,
                   deltaX |-> gestureArg.x - gestureArg.startX,
                   deltaY |-> gestureArg.y - gestureArg.startY,
                   longPresses |-> gestureArg.longPresses]
  /\ UNCHANGED <<touches, virtualJoystick, timers, inputNow, targetTouches,
                 gestureArg>>

GestureNext == ApplyGesture /\ UNCHANGED <<lifecycleVars, startupVars, rendererVars, sceneVars, gameVars, canvasVars, assetVars>>

(***************************************************************************)
(*                     Startup (main.ts init, Game.init)                   *)
(* contentManager.init() and installManager.init(), which main.ts calls    *)
(* between game.init() and game.start(), are not part of the model.        *)
(***************************************************************************)

\* showErrorScreen has been called: both listeners call it
ErrorScreenShown == consoleErrors # {}

\* Game.init() up to "await this.loadAssets()": setupCanvas, the core
\* systems are constructed, loadAssets calls assets.loadAssets([])
GameInitBegin ==
  /\ bootPhase = "constructed"
  /\ bootPhase' = "loading assets"
  /\ SetupCanvas
  /\ LoadAssets(<<>>)
  /\ UNCHANGED <<sceneVars, lifecycleVars, gameVars, rendererVars, inputVars,
                 consoleErrors>>

\* Game.init() after the await: initializeScenes registers no scene and
\* calls setState(MENU), which calls scenes.switchTo('menu') and drops the
\* promise; its rejection is an unhandled rejection
GameInitEnd ==
  /\ bootPhase = "loading assets"
  /\ bootPhase' = "initialized"
  /\ SetState("menu")
  /\ SwitchTo("menu", "none")
  /\ consoleErrors' = IF sceneCall'.result = "throws"
                      THEN consoleErrors \cup {"Unhandled promise rejection"}
                      ELSE consoleErrors
  /\ UNCHANGED <<lifecycleVars, canvasVars, rendererVars, inputVars, assetVars>>

\* game.start()
GameStart ==
  /\ bootPhase = "initialized"
  /\ bootPhase' = "started"
  /\ Start
  /\ UNCHANGED <<sceneVars, lifecycleVars, canvasVars, rendererVars, inputVars,
                 assetVars, consoleErrors>>

\* a callback of the frame; an exception it throws is reported to the
\* window's error listener
StartupFrameCallback ==
  /\ FrameCallback
  /\ consoleErrors' = IF loopCall'.result = "TypeError"
                      THEN consoleErrors \cup {"Global error"}
                      ELSE consoleErrors
  /\ UNCHANGED <<sceneVars, lifecycleVars, canvasVars, rendererVars, inputVars,
                 assetVars, bootPhase>>

StartupNext ==
  \/ GameInitBegin
  \/ GameInitEnd
  \/ GameStart
  \/ (\E d \in GameTicks : GameTick(d))
       /\ UNCHANGED <<lifecycleVars, startupVars, rendererVars, sceneVars, canvasVars, inputVars, assetVars>>
  \/ BeginFrame /\ UNCHANGED <<lifecycleVars, startupVars, rendererVars, sceneVars, canvasVars, inputVars, assetVars>>
  \/ RunFrameCallbacks
       /\ UNCHANGED <<lifecycleVars, startupVars, rendererVars, sceneVars, canvasVars, inputVars, assetVars>>
  \/ StartupFrameCallback
  \/ EndFrame /\ UNCHANGED <<lifecycleVars, startupVars, rendererVars, sceneVars, canvasVars, inputVars, assetVars>>
  \/ (\E w \in ViewportWidths, h \in ViewportHeights : WindowResized(w, h))
       /\ UNCHANGED <<lifecycleVars, startupVars, rendererVars, sceneVars, gameVars, inputVars, assetVars>>
  \/ HandleResize /\ UNCHANGED <<lifecycleVars, startupVars, rendererVars, sceneVars, gameVars, inputVars, assetVars>>

(***************************************************************************)
(*                             Specifications                              *)
(***************************************************************************)

Init ==
  /\ SceneInit /\ LifecycleInit /\ GameInit /\ CanvasInit /\ StartupInit
  /\ RendererInit
  /\ InputInit /\ AssetInit
  /\ gestureArg = NoGestureArg

SpecScene == Init /\ [][SceneNext]_vars

SpecLifecycle == Init /\ [][LifecycleNext]_vars

SpecGame == Init /\ [][GameNext]_vars

SpecLoop == Init /\ [][LoopNext]_vars

SpecCanvas == Init /\ [][CanvasNext]_vars

SpecStartup == Init /\ [][StartupNext]_vars

SpecRenderer == Init /\ [][RendererNext]_vars

SpecInput == Init /\ [][InputNext]_vars

SpecJoystick == Init /\ [][JoystickNext]_vars

SpecDisplayedTouch == Init /\ [][DisplayedTouchNext]_vars

SpecGesture == GestureInit /\ [][GestureNext]_vars

SpecAssets == Init /\ [][AssetNext]_vars

(***************************************************************************)
(*                                 Claims                                  *)
(***************************************************************************)

\* C1: a switchTo call made while a transition is active changes nothing of
\* the manager (it is rejected, or throws for an unknown name); while the
\* transition is active the current scene changes only when the transition
\* completes (or the manager is destroyed), and completion makes the target
\* of the accepted call, captured when the transition started, current.
C1_SecondSwitchToIsNoOp ==
  [][/\ (transitionActive /\ sceneCall'.op = "switchTo")
          => /\ sceneCall'.result \in {"in progress", "throws"}
             /\ UNCHANGED <<scenes, initializedScenes, currentScene,
                            transitionFromScene, transitionToScene,
                            transitionActive, transitionProgress, transitionType,
                            transitionDuration, pendingSwitch>>
     /\ (transitionActive /\ currentScene' # currentScene)
          => sceneCall'.op \in {"completeTransition", "destroy"}
     /\ (sceneCall'.op = "completeTransition" /\ pendingSwitch.phase = "anim")
          => currentScene' = pendingSwitch.to]_vars

\* C1 witness: a second switchTo, to a registered scene, has just been
\* rejected during a transition away from a current scene
C1_Witness ==
  /\ sceneCall.op = "switchTo"
  /\ sceneCall.result = "in progress"
  /\ transitionActive
  /\ pendingSwitch.phase = "anim"
  /\ currentScene # NoScene
  /\ pendingSwitch.from = currentScene
  /\ pendingSwitch.to # currentScene

C3_BoundedSteps ==
  loopCall.result = "ok" => (loopCall.delta <= maxDeltaTime /\ loopCall.updates <= 15)

\* C3 witness: a gameLoop call has just made 15 update() calls
C3_Witness ==
  loopCall.result = "ok" /\ loopCall.delta = maxDeltaTime /\ loopCall.updates = 15


\* C4: while a touch owns the active virtual joystick, the joystick position
\* is never farther from the start position of that touch than the joystick
\* radius
C4_JoystickWithinRadius ==
  \A i \in 1..Len(touches) :
    (virtualJoystick.active /\ i = FindIndex(virtualJoystick.touchId))
      => DistanceLe(virtualJoystick.x - touches[i].startX,
                    virtualJoystick.y - touches[i].startY, JoystickRadius)

\* C5: at touch-end a touch of at most 300 ms that moved less than 10 px emits
\* exactly one tap and no swipe; a touch that is no tap and moved more than
\* 30 px emits exactly one swipe carrying its direction and deltas; every
\* other touch emits nothing
C5_TapOrSwipe ==
  inputCall.op = "touchend" =>
    LET dist2 == Sq(inputCall.deltaX) + Sq(inputCall.deltaY)
        taps == {i \in 1..Len(inputCall.events) : inputCall.events[i].type = "tap"}
        swipes == {i \in 1..Len(inputCall.events) : inputCall.events[i].type = "swipe"}
    IN IF inputCall.duration <= 300 /\ dist2 < 100
       THEN Cardinality(taps) = 1 /\ swipes = {}
       ELSE IF dist2 > 900
       THEN /\ taps = {}
            /\ Cardinality(swipes) = 1
            /\ \A i \in swipes :
                 /\ inputCall.events[i].direction \in {"left", "right", "up", "down"}
                 /\ inputCall.events[i].deltaX = inputCall.deltaX
                 /\ inputCall.events[i].deltaY = inputCall.deltaY
       ELSE taps = {} /\ swipes = {}

C5_Witness ==
  /\ inputCall.op = "touchend"
  /\ inputCall.duration = 300
  /\ inputCall.deltaX = 9 /\ inputCall.deltaY = 0
  /\ Len(inputCall.events) = 1
  /\ inputCall.events[1].type = "tap"

\* C6: a swipe's direction is that of the axis with the greater absolute
\* displacement, right or left by the sign of deltaX and down or up by the
\* sign of deltaY, and a swipe with |deltaX| = |deltaY| is horizontal
C6_SwipeDirection ==
  \A i \in 1..Len(inputCall.events) :
    inputCall.events[i].type = "swipe" =>
      LET e == inputCall.events[i] IN
      /\ Abs(e.deltaX) > Abs(e.deltaY)
           => e.direction = (IF e.deltaX > 0 THEN "right" ELSE "left")
      /\ Abs(e.deltaY) > Abs(e.deltaX)
           => e.direction = (IF e.deltaY > 0 THEN "down" ELSE "up")
      /\ Abs(e.deltaX) = Abs(e.deltaY)
           => e.direction = (IF e.deltaX > 0 THEN "right" ELSE "left")

\* C7: a touch that is down when the 500 ms armed at its start have passed
\* has had exactly one longPress; a touch has none before that, and a touch
\* that ended before the 500 ms had passed has had none
C7_LongPressOnce ==
  /\ \A i \in 1..Len(touches) :
       /\ inputNow - touches[i].startTime < LONG_PRESS_TIMEOUT
            => touches[i].longPresses = 0
       /\ inputNow - touches[i].startTime > LONG_PRESS_TIMEOUT
            => touches[i].longPresses = 1
       /\ touches[i].longPresses <= 1
  /\ (inputCall.op = "touchend" /\ inputCall.duration < LONG_PRESS_TIMEOUT)
       => inputCall.longPresses = 0

\* C8: when a loadAssets call over n distinct ids of which k failed to load
\* resolves, it returns n - k assets and getProgress() reports total = n,
\* loaded = n - k and failed = k
C8_BatchResult ==
  assetCall.op = "loadAssets resolved" =>
    /\ assetCall.returned = assetCall.requested - assetCall.rejected
    /\ assetCall.progress.total = assetCall.requested
    /\ assetCall.progress.loaded = assetCall.requested - assetCall.rejected
    /\ assetCall.progress.failed = assetCall.rejected

\* C9: a loadAsset call for an id whose load is still pending starts no
\* further loadAssetData and returns the record of the pending load
C9_LoadStartedOnce ==
  [][\A id \in AssetIds :
       (/\ \E r \in loads : records[r].id = id
        /\ assetCall'.op = "loadAsset"
        /\ assetCall'.id = id)
         => /\ Len(records') = Len(records)
            /\ assetCall'.slot.rec \in loads
            /\ records[assetCall'.slot.rec].id = id]_vars

\* C10: while a request of a loadAssets batch is pending, isFullyLoaded() is
\* false
C10_NotFullyLoadedWhilePending ==
  batches # {} => ~IsFullyLoaded

\* C11: removeScene(name) for the name of the current scene throws and
\* leaves the scene registered, current and not destroyed
C11_RemoveCurrentThrows ==
  [][\A n \in SceneNames :
       (/\ scenes[n] # NoScene
        /\ currentScene = scenes[n]
        /\ sceneCall'.op = "removeScene"
        /\ sceneCall'.name = n)
         => /\ sceneCall'.result = "throws"
            /\ scenes' = scenes
            /\ initializedScenes' = initializedScenes
            /\ currentScene' = currentScene
            /\ \A i \in 1..Len(sceneCalls') : sceneCalls'[i].call # "destroy"]_vars

C11_Witness ==
  /\ sceneCall.op = "removeScene"
  /\ sceneCall.result = "throws"
  /\ currentScene # NoScene
  /\ scenes[sceneCall.name] = currentScene

\* C12: a render during a fade transition at progress p sets the global alpha
\* to 1 - p and draws the outgoing scene, sets it to p and draws the incoming
\* scene, and sets it to 1
C12_FadeRender ==
  (/\ sceneCall.op = "render"
   /\ transitionActive
   /\ transitionType = "fade"
   /\ pendingSwitch.phase = "anim")
    => /\ transitionProgress \in 0..100
       /\ sceneCalls =
            (IF pendingSwitch.from # NoScene
             THEN <<AlphaCall(100 - transitionProgress),
                    SceneCall("render", pendingSwitch.from)>>
             ELSE <<>>)
            \o <<AlphaCall(transitionProgress), SceneCall("render", pendingSwitch.to),
                 AlphaCall(100)>>

\* C13: init() is called at most once for a registration, and the target of
\* a transition and the current scene have had their init() completed
C13_InitOnce ==
  /\ \A n \in SceneNames : sceneInits[n] <= 1
  /\ pendingSwitch.phase = "anim" => sceneInited.target
  /\ currentScene # NoScene => sceneInited.current

\* C14: the step that completes a transition calls destroy() once on the
\* outgoing scene, if there is one, and nothing else, makes the incoming
\* scene current and clears the transition's flag, progress and scenes
C14_Completion ==
  [][(sceneCall'.op = "completeTransition" /\ pendingSwitch.phase = "anim")
       => /\ sceneCalls' = (IF pendingSwitch.from # NoScene
                            THEN <<SceneCall("destroy", pendingSwitch.from)>>
                            ELSE <<>>)
          /\ currentScene' = pendingSwitch.to
          /\ ~transitionActive'
          /\ transitionProgress' = 0
          /\ transitionFromScene' = NoScene
          /\ transitionToScene' = NoScene]_vars

C14_Witness ==
  /\ sceneCall.op = "completeTransition"
  /\ currentScene # NoScene
  /\ ~transitionActive
  /\ Len(sceneCalls) = 1
  /\ sceneCalls[1].call = "destroy"
  /\ sceneCalls[1].scene # currentScene

\* C15: update() during a transition calls update() on no scene; outside a
\* transition it calls update() on the current scene only
C15_NoUpdateInTransition ==
  sceneCall.op = "update" =>
    /\ transitionActive => \A i \in 1..Len(sceneCalls) : sceneCalls[i].call # "update"
    /\ ~transitionActive =>
         \A i \in 1..Len(sceneCalls) :
           sceneCalls[i].call = "update" => sceneCalls[i].scene = currentScene

C15_Witness ==
  /\ sceneCall.op = "update"
  /\ transitionActive
  /\ transitionFromScene # NoScene
  /\ transitionToScene # NoScene
  /\ currentScene = transitionFromScene
  /\ sceneCalls = <<>>

\* C16: a frame callback of the running game calls render() exactly once,
\* after every update() call of the frame, whatever their number
C16_UpdatesThenRender ==
  (loopCall.result # "none" /\ isRunning) =>
    /\ Len(loopCall.trace) = loopCall.updates + 1
    /\ loopCall.trace[Len(loopCall.trace)] = "render"
    /\ \A i \in 1..(Len(loopCall.trace) - 1) : loopCall.trace[i] = "update"

\* C17: resume() right after pause() leaves the state that held before
\* the pause() call
C17_PauseResumeRestores ==
  pauseCall.op = "resume" => gameState = pauseCall.state

\* C18: a frame callback of the running game, while it is paused, calls
\* render() once and updates neither the input handler nor the scenes
C18_PausedFrame ==
  (loopCall.result # "none" /\ isRunning /\ isPaused /\ gameState = "paused") =>
    /\ Len(SelectSeq(loopCall.trace, LAMBDA c : c = "render")) = 1
    /\ loopCall.inputUpdates = 0
    /\ loopCall.sceneUpdates = 0

\* C19: no two entries of the touch list have the same id
C19_UniqueTouchIds ==
  \A i, j \in 1..Len(touches) : i # j => touches[i].id # touches[j].id

\* C20: getVirtualJoystick() returns active = true whenever the joystick is
\* active and bound to a touch that is on the canvas, and {0, 0, false}
\* exactly when it is not
C20_JoystickReported ==
  LET joystickActive == /\ virtualJoystick.active
                        /\ virtualJoystick.touchId \in targetTouches
  IN /\ joystickActive => GetVirtualJoystick.active
     /\ GetVirtualJoystick = NoJoystick <=> ~joystickActive

\* C21: both components of the vector getVirtualJoystick() returns lie in
\* [-1, 1] and its magnitude is at most 1 (components in hundredths)
C21_Normalized ==
  LET v == GetVirtualJoystick
  IN /\ v.x \in (0 - 100)..100
     /\ v.y \in (0 - 100)..100
     /\ Sq(v.x) + Sq(v.y) <= Sq(100)

\* the joystick is further than its radius from the owning touch's start,
\* off both axes, and getVirtualJoystick() reports it
C21_Witness ==
  /\ GetVirtualJoystick.active
  /\ GetVirtualJoystick.x # 0
  /\ GetVirtualJoystick.y # 0
  /\ LET i == FindIndex(virtualJoystick.touchId)
     IN DistanceGt(virtualJoystick.x - touches[i].startX,
                   virtualJoystick.y - touches[i].startY, virtualJoystick.radius)

\* C22: loadAsset for an id whose asset is loaded returns the record the
\* map holds, starts no load and leaves the three counters unchanged
C22_CachedLoadAsset ==
  [][\A id \in AssetIds :
       (/\ assets[id] # NoRecord
        /\ records[assets[id]].loaded
        /\ assetCall'.op = "loadAsset"
        /\ assetCall'.id = id)
       => /\ assetCall'.slot = [rec |-> assets[id], state |-> "ok"]
          /\ UNCHANGED <<assets, records, loads, loadPromises>>
          /\ UNCHANGED <<totalAssets, loadedAssets, failedAssets>>]_vars

\* loadAsset has returned a cached record while the counters were not zero
C22_Witness ==
  /\ assetCall.op = "loadAsset"
  /\ assetCall.slot.state = "ok"
  /\ records[assetCall.slot.rec].loaded
  /\ totalAssets > 0
  /\ loadedAssets > 0

\* C23: after setupCanvas and after a handled resize the scale is the
\* largest integer s >= 1 with 320 s <= viewport width and 180 s <= viewport
\* height, or 1 when there is none
C23_IntegerScale ==
  canvasCall \in {"setupCanvas", "handleResize"} =>
    LET fits == {s \in 1..(viewport.width + 1) :
                   /\ CanvasWidth * s <= viewport.width
                   /\ CanvasHeight * s <= viewport.height}
    IN /\ scale \in Nat
       /\ scale >= 1
       /\ IF fits = {}
          THEN scale = 1
          ELSE scale \in fits /\ \A s \in fits : s <= scale

\* a resize has been handled in a window that fits the canvas three times
\* in width but only twice in height
C23_Witness ==
  /\ canvasCall = "handleResize"
  /\ viewport = [width |-> 960, height |-> 360]
  /\ scale = 2

C25_UnregisteredSwitchTo ==
  [][\A n \in SceneNames :
       (scenes[n] = NoScene /\ sceneCall'.op = "switchTo" /\ sceneCall'.name = n)
       => /\ sceneCall'.result = "throws"
          /\ UNCHANGED <<currentScene, transitionActive, transitionProgress,
                         scenes>>]_vars

\* switchTo has thrown for an unregistered name during a transition between
\* two scenes
C25_Witness ==
  /\ sceneCall.op = "switchTo"
  /\ sceneCall.result = "throws"
  /\ scenes[sceneCall.name] = NoScene
  /\ transitionActive
  /\ pendingSwitch.phase = "anim"
  /\ currentScene # NoScene

\* C26: a render during a transition of type NONE draws the incoming scene
\* and nothing else, whether or not there was a current scene
C26_ImmediateCut ==
  (/\ sceneCall.op = "render"
   /\ transitionActive
   /\ transitionType = "none"
   /\ pendingSwitch.phase = "anim")
    => sceneCalls = <<SceneCall("render", pendingSwitch.to)>>

\* C27: every Renderer draw operation (drawText, drawSprite, drawRect,
\* drawPixel) and every SceneManager transition render leaves the context's
\* transform and its save/restore depth as it found them, for any camera
\* position and zoom.
C27_ContextRestored ==
  [][rendererCall'.op \in DrawOps \cup {"renderTransition"}
       => /\ ctx'.transform = ctx.transform
          /\ Len(ctx'.stack) = Len(ctx.stack)
          /\ ctx' = ctx]_vars

\* a sprite is drawn with the camera moved and zoomed, inside a scene's own
\* pushTransform and translate
C27_Witness ==
  /\ rendererCall.op = "drawSprite"
  /\ camera.zoom = 2 /\ camera.x # 0 /\ camera.y # 0
  /\ ctx.stack # <<>>
  /\ ctx.transform # IdentityTransform

\* C28: a touch-start activates the virtual joystick, anchored at the touch
\* point and bound to that touch, exactly when the touch lands in the left
\* half of the canvas as displayed, at every scale factor; a touch in the
\* right half never activates it.
C28_LeftHalfActivates ==
  [][(inputCall'.op = "touchstart" /\ Len(touches') = Len(touches) + 1)
       => LET t == touches'[Len(touches')] IN
          IF t.x * 2 < canvasStyle.width
          THEN virtualJoystick' = [x |-> t.x, y |-> t.y, radius |-> JoystickRadius,
                                   active |-> TRUE, touchId |-> t.id]
          ELSE virtualJoystick' = virtualJoystick]_vars

\* C29: every transition started by switchTo completes: while it runs its
\* progress stays within [0, 1] and never decreases, it has reached 1 and
\* ended once the duration has elapsed (at once for a duration of 0), for
\* every duration setTransitionDuration accepts and when the duration is
\* changed during the transition.
C29_TransitionProgress ==
  [][/\ pendingSwitch'.phase = "anim" => transitionProgress' \in 0..100
     /\ (pendingSwitch.phase = "anim" /\ pendingSwitch' = pendingSwitch)
          => transitionProgress' >= transitionProgress
     /\ (pendingSwitch'.phase = "anim" /\ transitionProgress' # transitionProgress)
          => sceneNow' - pendingSwitch'.startTime < transitionDuration'
     /\ (pendingSwitch.phase # "anim" /\ pendingSwitch'.phase = "anim")
          => transitionDuration' > 0]_vars

\* C30: after start() the frame callback runs on every frame and schedules
\* itself again until stop() is called; after stop() the callback that is
\* still pending returns without updating, rendering or rescheduling.
C30_LoopReschedules ==
  [][(framePhase = "callbacks" /\ rafRunning # <<>> /\ rafRunning' = Tail(rafRunning))
       => IF isRunning
          THEN /\ loopCall'.result = "ok"
               /\ loopCall'.renders = 1
               /\ rafPending' = Append(rafPending, [bound |-> TRUE])
          ELSE /\ loopCall'.result = "not running"
               /\ loopCall'.updates = 0
               /\ loopCall'.renders = 0
               /\ rafPending' = rafPending]_vars

\* C31: for any sequence of start() and stop() calls interleaved with
\* animation frames, at most one game-loop frame callback is pending at any
\* time.
C31_OnePendingCallback ==
  Len(rafPending) + Len(rafRunning) <= 1

\* C32: getCurrentScene() is always null or a scene that is registered in
\* the manager, after any sequence of addScene, removeScene, switchTo,
\* destroy and transition completions.
C32_CurrentRegistered ==
  currentScene # NoScene => \E n \in SceneNames : scenes[n] = currentScene

\* C33: the current scene is never a scene on which destroy() has been
\* called after its last init(): after switching A -> B -> A the current
\* scene A has been initialized again.
C33_CurrentNotDestroyed ==
  currentScene # NoScene => currentScene \notin sceneDestroyed

\* C34: when the target scene's init() fails, switchTo fails and the
\* manager is left in the non-transitioning state with the previous current
\* scene, so that a later switchTo is not refused as "already in progress".
C34_InitFailureRecovers ==
  /\ (sceneCall.op = "init" /\ sceneCall.result = "rejected") => ~transitionActive
  /\ (sceneCall.op = "switchTo" /\ sceneCall.result = "in progress")
       => pendingSwitch.phase \in {"init", "anim"}

\* C35: isPaused is true exactly when the game state is PAUSED, after any
\* sequence of start, pause, resume and setState calls.
C35_PausedFlagMatchesState ==
  isPaused <=> gameState = "paused"

\* C36: getProgress() never reports loaded + failed greater than total, for
\* any sequence of loadAsset, loadAssets, unloadAsset and unloadAllAssets
\* calls and any order of load completions.
C36_ProcessedWithinTotal ==
  LET p == GetProgressAt(totalAssets, loadedAssets, failedAssets) IN p.loaded + p.failed <= p.total

\* C37: once the promise returned by loadAssets(requests) has resolved,
\* isFullyLoaded() is true and getProgress().percentage is 100, also when
\* some of the requested ids had been loaded by an earlier call.
C37_BatchFullyLoaded ==
  assetCall.op = "loadAssets resolved" =>
    /\ IsFullyLoadedAt(totalAssets, loadedAssets, failedAssets)
    /\ GetProgressAt(totalAssets, loadedAssets, failedAssets).percentage = 100

\* C38: a longPress event is emitted only for a touch that has itself been
\* down for at least the long-press timeout: a timer armed by an earlier
\* touch that has ended produces no longPress for a later touch with the
\* same identifier.
C38_LongPressOwnTimer ==
  \A i \in 1..Len(inputCall.events) :
    inputCall.events[i].type = "longPress" =>
      inputNow - inputCall.events[i].startTime >= LONG_PRESS_TIMEOUT

\* C39: a single touch, from its touch-start to its touch-end, yields at
\* most one gesture event in total among tap, swipe and longPress.
C39_OneGesturePerTouch ==
  /\ \A i \in 1..Len(touches) : touches[i].longPresses <= 1
  /\ inputCall.op = "touchend" => inputCall.longPresses + Len(inputCall.events) <= 1

\* C40: once a touch has activated the virtual joystick, the joystick stays
\* bound to that touch and anchored where it is until that touch ends: the
\* touch-start of another touch neither re-binds nor re-anchors it, and the
\* joystick is inactive as soon as its owning touch has ended.
C40_JoystickBinding ==
  [][LET owned == /\ virtualJoystick.active
                  /\ virtualJoystick.touchId \in targetTouches
                  /\ FindIndex(virtualJoystick.touchId) # 0
     IN /\ (owned /\ inputCall'.op = "touchstart" /\ Len(touches') = Len(touches) + 1)
             => virtualJoystick' = virtualJoystick
        /\ (owned /\ inputCall'.op = "touchend"
                  /\ virtualJoystick.touchId \notin targetTouches')
             => ~virtualJoystick'.active]_vars

====
